---- MODULE Spec2Model ----
(***************************************************************************)
(* Model of the carbon-emission demo: the offline trainer                  *)
(* (ml/train_model.py) and the Flask predictor (app.py), which share the   *)
(* two artifacts ml/model.pkl and ml/metadata.json.                        *)
(*                                                                         *)
(* Numbers: target values are whole g/km; the regressor's raw output is in *)
(* thousandths of g/km and a rounded prediction is in hundredths of g/km.  *)
(* Numeric form fields are held in tenths after parsing.                   *)
(***************************************************************************)
EXTENDS Integers, Sequences, FiniteSets, TLC

VARIABLES
    \* ---- disk
    modelFile,      \* ml/model.pkl
    metaFile,       \* ml/metadata.json
    \* ---- trainer process (ml/train_model.py)
    run,            \* number of the current trainer run (0 = none yet)
    tpc,            \* position of the trainer in its module body
    df,             \* the table read by pd.read_csv(DATA_PATH)
    trainError,     \* the exception that ended the run, if any
    metrics,        \* mae / rmse computed by Evaluate
    visited,        \* stages the current run has entered, in order
    lastExit,       \* how the latest finished trainer process ended
    \* ---- server process (app.py)
    pc,             \* position of the server: off, startup steps, serving, crashed
    modelAtStart,   \* what MODEL_PATH held when the server looked at it
    startError,     \* the exception that ended startup, if any
    model,          \* the loaded pipeline (the run that fitted it)
    CATEGORICAL, NUMERIC, TARGET,   \* meta["categorical"|"numeric"|"target"]
    metaSource,     \* "file" or "default": which branch of the metadata load ran
    fleet_df, fleet_avg, dropdown_values,
    \* ---- requests handled by home()
    req, resp,      \* the latest request and its outcome
    prevKind        \* the kind of outcome of the request handled before it

diskVars    == <<modelFile, metaFile>>
trainerVars == <<run, tpc, df, trainError, metrics, visited, lastExit>>
globals     == <<model, CATEGORICAL, NUMERIC, TARGET, fleet_df, fleet_avg, dropdown_values>>
startVars   == <<modelAtStart, startError, metaSource>>
reqVars     == <<req, resp, prevKind>>
vars == <<diskVars, trainerVars, pc, startVars, globals, reqVars>>

----------------------------------------------------------------------------
\* Bounds of the model
MaxRuns == 2        \* trainer runs explored
MaxRows == 2        \* rows of a reference dataset

----------------------------------------------------------------------------
\* Schema constants of the trainer (train_model.py)
CATEGORICAL_COLS == <<"Make", "Model", "Fuel">>
NUMERIC_COLS     == <<"EngineSize", "Cylinders", "FuelConsumption">>
TRAIN_TARGET     == "CO2Emissions"
REQUIRED_COLUMNS == CATEGORICAL_COLS \o NUMERIC_COLS \o <<TRAIN_TARGET>>

\* Hardcoded schema of the server, used when metadata.json is absent (app.py)
DefaultMeta ==
    [categorical |-> <<"Make", "Model", "Fuel", "Transmission">>,
     numeric     |-> <<"EngineSize", "Cylinders", "FuelConsumption">>,
     target      |-> "CO2Emissions"]

Range(s) == {s[i] : i \in 1..Len(s)}

IsPrefix(s, t) == Len(s) <= Len(t) /\ \A i \in 1..Len(s) : s[i] = t[i]

----------------------------------------------------------------------------
\* Files
\* A file is absent, cut short by a failed write, or complete; run is the
\* trainer run that last wrote it and content is what json.load would return.
EmptyContent == [categorical |-> <<>>, numeric |-> <<>>, target |-> "",
                 mae |-> 0, rmse |-> 0]
NoFile == [state |-> "absent", run |-> 0, content |-> EmptyContent]
Partial(r) == [state |-> "partial", run |-> r, content |-> EmptyContent]
Written(r, c) == [state |-> "ok", run |-> r, content |-> c]

----------------------------------------------------------------------------
\* Trainer

Stages == <<"Load", "Validate", "Split", "Fit", "Evaluate", "Persist">>

\* The stage the module body runs after stage s (straight-line code).
StageAfterSkip(s) ==
    CASE s = "Load"     -> "Validate"
      [] s = "Validate" -> "Fit"
      [] s = "Split"    -> "Fit"
      [] s = "Fit"      -> "Evaluate"
      [] s = "Evaluate" -> "Persist"

StageAfter(s) ==
    CASE s = "Load"     -> "Validate"
      [] s = "Validate" -> "Split"
      [] s = "Split"    -> "Fit"
      [] s = "Fit"      -> "Evaluate"
      [] s = "Evaluate" -> "Persist"

\* Column sets a CSV at DATA_PATH may carry
AllColumns == Range(REQUIRED_COLUMNS) \cup {"Transmission"}
TrainColumnSets ==
    { Range(REQUIRED_COLUMNS),
      AllColumns,
      Range(REQUIRED_COLUMNS) \ {"Fuel"},
      Range(REQUIRED_COLUMNS) \ {TRAIN_TARGET},
      Range(REQUIRED_COLUMNS) \ {"Make", "Cylinders"},
      {} }

\* missing_cols = [c for c in REQUIRED_COLUMNS if c not in df.columns]
missing_cols_features_only(columns) ==
    SelectSeq(CATEGORICAL_COLS \o NUMERIC_COLS, LAMBDA c : c \notin columns)

missing_cols(columns) ==
    SelectSeq(REQUIRED_COLUMNS, LAMBDA c : c \notin columns)

\* Values (mae, rmse) the evaluation may produce (whole g/km)
MetricValues == {[mae |-> 0, rmse |-> 0], [mae |-> 40, rmse |-> 50]}

NoDf == [loaded |-> FALSE, columns |-> {}]
NoError == [type |-> "none", cols |-> <<>>]
NoMetrics == [computed |-> FALSE, mae |-> 0, rmse |-> 0]

\* feature_info = {"categorical": ..., "numeric": ..., "target": ..., "metrics": ...}
feature_info(m) ==
    [categorical |-> CATEGORICAL_COLS, numeric |-> NUMERIC_COLS,
     target |-> TRAIN_TARGET, mae |-> m.mae, rmse |-> m.rmse]

\* python ml/train_model.py is launched (the trainer is an offline batch job
\* that runs before the server is started)
TrainerStart ==
    /\ pc = "off"
    /\ tpc = "idle"
    /\ run < MaxRuns
    /\ run' = run + 1
    /\ tpc' = "Load"
    /\ df' = NoDf
    /\ trainError' = NoError
    /\ metrics' = NoMetrics
    /\ visited' = <<>>
    /\ UNCHANGED <<diskVars, lastExit, pc, startVars, globals, reqVars>>

\* df = pd.read_csv(DATA_PATH)
Load ==
    /\ tpc = "Load"
    /\ visited' = Append(visited, "Load")
    /\ \/ \E cols \in TrainColumnSets :
            /\ df' = [loaded |-> TRUE, columns |-> cols]
            /\ tpc' = StageAfter("Load")
            /\ UNCHANGED trainError
       \/ /\ tpc' = "aborted"       \* file missing or unreadable
          /\ trainError' = [type |-> "ReadError", cols |-> <<>>]
          /\ UNCHANGED df
    /\ UNCHANGED <<diskVars, run, lastExit, metrics, pc, startVars, globals, reqVars>>

\* if missing_cols: raise ValueError(...)
Validate ==
    /\ tpc = "Validate"
    /\ visited' = Append(visited, "Validate")
    /\ IF missing_cols(df.columns) # <<>>
         THEN /\ tpc' = "aborted"
              /\ trainError' = [type |-> "ValueError", cols |-> missing_cols(df.columns)]
         ELSE /\ tpc' = StageAfter("Validate")
              /\ UNCHANGED trainError
    /\ UNCHANGED <<diskVars, run, lastExit, df, metrics, pc, startVars, globals, reqVars>>

\* train_test_split(X, y, test_size=0.2, random_state=42)
Split ==
    /\ tpc = "Split"
    /\ visited' = Append(visited, "Split")
    /\ tpc' = StageAfter("Split")
    /\ UNCHANGED <<diskVars, run, lastExit, df, trainError, metrics, pc, startVars, globals, reqVars>>

\* pipe.fit(X_train, y_train)
Fit ==
    /\ tpc = "Fit"
    /\ visited' = Append(visited, "Fit")
    /\ tpc' = StageAfter("Fit")
    /\ UNCHANGED <<diskVars, run, lastExit, df, trainError, metrics, pc, startVars, globals, reqVars>>

\* pred = pipe.predict(X_test); mae = ...; rmse = ...; print(...)
Evaluate ==
    /\ tpc = "Evaluate"
    /\ visited' = Append(visited, "Evaluate")
    /\ \E m \in MetricValues :
            metrics' = [computed |-> TRUE, mae |-> m.mae, rmse |-> m.rmse]
    /\ tpc' = StageAfter("Evaluate")
    /\ UNCHANGED <<diskVars, run, lastExit, df, trainError, pc, startVars, globals, reqVars>>

\* joblib.dump(pipe, MODEL_PATH)
PersistModel ==
    /\ tpc = "Persist"
    /\ visited' = Append(visited, "Persist")
    /\ \/ /\ modelFile' = Written(run, EmptyContent)
          /\ tpc' = "PersistMeta"
          /\ UNCHANGED trainError
       \/ /\ modelFile' \in {modelFile, Partial(run)}   \* the write fails
          /\ tpc' = "aborted"
          /\ trainError' = [type |-> "WriteError", cols |-> <<>>]
    /\ UNCHANGED <<metaFile, run, lastExit, df, metrics, pc, startVars, globals, reqVars>>

\* A metadata step that leaves an existing metadata.json as it is
PersistMetaKeepsExisting ==
    /\ tpc = "PersistMeta"
    /\ \/ /\ metaFile' = IF metaFile.state = "ok" THEN metaFile
                                ELSE Written(run, feature_info(metrics))
          /\ tpc' = "done"
          /\ UNCHANGED trainError
       \/ /\ metaFile' \in {metaFile, Partial(run)}
          /\ tpc' = "aborted"
          /\ trainError' = [type |-> "WriteError", cols |-> <<>>]
    /\ UNCHANGED <<modelFile, run, lastExit, df, metrics, visited, pc, startVars, globals, reqVars>>

\* with open(META_PATH, "w") as f: json.dump(feature_info, f, indent=4)
PersistMeta ==
    /\ tpc = "PersistMeta"
    /\ \/ /\ metaFile' = Written(run, feature_info(metrics))
          /\ tpc' = "done"
          /\ UNCHANGED trainError
       \/ /\ metaFile' \in {metaFile, Partial(run)}     \* the write fails
          /\ tpc' = "aborted"
          /\ trainError' = [type |-> "WriteError", cols |-> <<>>]
    /\ UNCHANGED <<modelFile, run, lastExit, df, metrics, visited, pc, startVars, globals, reqVars>>

\* The trainer process ends: after the last print, or on the uncaught
\* exception.  Its variables go with it; the files stay.
TrainerExit ==
    /\ tpc \in {"done", "aborted"}
    /\ tpc' = "idle"
    /\ lastExit' = tpc
    /\ df' = NoDf
    /\ trainError' = NoError
    /\ metrics' = NoMetrics
    /\ visited' = <<>>
    /\ UNCHANGED <<diskVars, run, pc, startVars, globals, reqVars>>

----------------------------------------------------------------------------
\* Reference datasets (data/vehicles_100_corrected.csv, data/vehicles_100.csv)

\* A cell of a table: a value, or missing (NaN)
Cell(v) == [isna |-> FALSE, v |-> v]
NaCell(v) == [isna |-> TRUE, v |-> v]

TargetCells == {Cell(100), Cell(200), NaCell(0)}

RefColumnSets ==
    { AllColumns,
      Range(REQUIRED_COLUMNS) \ {"Model"},
      Range(REQUIRED_COLUMNS) \ {TRAIN_TARGET} }

\* The other cells of a row whose target cell is t
CellOf(c, t) ==
    CASE c = "Make"  -> Cell("Tata")
      [] c = "Model" -> IF t.isna THEN NaCell("") ELSE Cell("Nexon")
      [] c = "Fuel"  -> IF t.v = 200 THEN Cell("Diesel") ELSE Cell("Petrol")
      [] c = "Transmission" -> Cell("Manual")
      [] c = "EngineSize" -> Cell(15)
      [] c = "Cylinders" -> Cell(40)
      [] c = "FuelConsumption" -> Cell(65)

MkRow(cols, t) == [c \in cols |-> IF c = TRAIN_TARGET THEN t ELSE CellOf(c, t)]

TargetSeqs == UNION {[1..n -> TargetCells] : n \in 0..MaxRows}

Datasets ==
    {[kind |-> "df", columns |-> cols,
      rows |-> [i \in 1..Len(ts) |-> MkRow(cols, ts[i])]] :
        cols \in RefColumnSets, ts \in TargetSeqs}

NoneDf  == [kind |-> "None",  columns |-> {}, rows |-> <<>>]
UnsetDf == [kind |-> "unset", columns |-> {}, rows |-> <<>>]

\* What a path of DATA_CANDIDATES may hold
Absent == [kind |-> "absent", columns |-> {}, rows |-> <<>>]
Unreadable == [kind |-> "unreadable", columns |-> {}, rows |-> <<>>]
CandidateFiles == Datasets \cup {Absent, Unreadable}

\* for p in DATA_CANDIDATES: if p.exists(): try: fleet_df = pd.read_csv(p); break
\*                                           except Exception: pass
RECURSIVE first_readable(_)
first_readable(files) ==
    IF files = <<>> THEN NoneDf
    ELSE IF Head(files).kind = "df" THEN Head(files)
    ELSE first_readable(Tail(files))

\* Series.mean(): the mean over the cells that are not NaN; NaN if there are none.
\* A mean is kept exact as the pair num / den.
RECURSIVE SumPresent(_, _)
SumPresent(rows, col) ==
    IF rows = <<>> THEN 0
    ELSE (IF Head(rows)[col].isna THEN 0 ELSE Head(rows)[col].v)
         + SumPresent(Tail(rows), col)

CountPresent(rows, col) == Cardinality({i \in 1..Len(rows) : ~rows[i][col].isna})

AvgNone  == [kind |-> "None",  num |-> 0, den |-> 1]
AvgUnset == [kind |-> "unset", num |-> 0, den |-> 1]
AvgNaN   == [kind |-> "nan",   num |-> 0, den |-> 1]

mean_over_all_rows(rows, col) ==
    IF Len(rows) = 0 THEN AvgNaN
    ELSE [kind |-> "num", num |-> SumPresent(rows, col), den |-> Len(rows)]

mean(rows, col) ==
    IF CountPresent(rows, col) = 0 THEN AvgNaN
    ELSE [kind |-> "num", num |-> SumPresent(rows, col), den |-> CountPresent(rows, col)]

\* sorted(fleet_df[col].dropna().unique()): the distinct values that are present
\* (a sorted list without repeats is given by its set of elements)
dropna_unique(rows, col) == {rows[i][col].v : i \in {j \in 1..Len(rows) : ~rows[j][col].isna}}

NoDropdown == [c \in {} |-> {}]

----------------------------------------------------------------------------
\* Server startup (module body of app.py)

\* A startup that does not stop when the model file is missing
ServerStartWithoutModel ==
    /\ pc = "off"
    /\ tpc = "idle"
    /\ modelAtStart' = modelFile
    /\ pc' = "loadMeta"
    /\ model' = modelFile.run
    /\ UNCHANGED <<diskVars, trainerVars, startError, metaSource, CATEGORICAL, NUMERIC,
                   TARGET, fleet_df, fleet_avg, dropdown_values, reqVars>>

\* if not MODEL_PATH.exists(): raise FileNotFoundError(...)
\* model = joblib.load(MODEL_PATH)
ServerStart ==
    /\ pc = "off"
    /\ tpc = "idle"
    /\ modelAtStart' = modelFile
    /\ CASE modelFile.state = "absent" ->
              /\ pc' = "crashed"
              /\ startError' = "FileNotFoundError"
              /\ UNCHANGED model
         [] modelFile.state = "partial" ->      \* joblib.load raises
              /\ pc' = "crashed"
              /\ startError' = "LoadError"
              /\ UNCHANGED model
         [] modelFile.state = "ok" ->
              /\ pc' = "loadMeta"
              /\ model' = modelFile.run
              /\ UNCHANGED startError
    /\ UNCHANGED <<diskVars, trainerVars, metaSource, CATEGORICAL, NUMERIC, TARGET,
                   fleet_df, fleet_avg, dropdown_values, reqVars>>

\* if META_PATH.exists(): meta = json.load(f)  else: meta = {...}
\* CATEGORICAL = meta["categorical"]; NUMERIC = meta["numeric"]; TARGET = meta["target"]
LoadMeta ==
    /\ pc = "loadMeta"
    /\ CASE metaFile.state = "absent" ->
              /\ metaSource' = "default"
              /\ CATEGORICAL' = DefaultMeta.categorical
              /\ NUMERIC' = DefaultMeta.numeric
              /\ TARGET' = DefaultMeta.target
              /\ pc' = "loadData"
              /\ UNCHANGED startError
         [] metaFile.state = "partial" ->       \* json.load raises
              /\ pc' = "crashed"
              /\ startError' = "JSONDecodeError"
              /\ UNCHANGED <<metaSource, CATEGORICAL, NUMERIC, TARGET>>
         [] metaFile.state = "ok" ->
              /\ metaSource' = "file"
              /\ CATEGORICAL' = metaFile.content.categorical
              /\ NUMERIC' = metaFile.content.numeric
              /\ TARGET' = metaFile.content.target
              /\ pc' = "loadData"
              /\ UNCHANGED startError
    /\ UNCHANGED <<diskVars, trainerVars, modelAtStart, model,
                   fleet_df, fleet_avg, dropdown_values, reqVars>>

\* fleet_df = None; for p in DATA_CANDIDATES: ...
LoadData ==
    /\ pc = "loadData"
    /\ \E f1 \in CandidateFiles, f2 \in CandidateFiles :
            fleet_df' = first_readable(<<f1, f2>>)
    /\ pc' = "fleetAvg"
    /\ UNCHANGED <<diskVars, trainerVars, startVars, model, CATEGORICAL, NUMERIC, TARGET,
                   fleet_avg, dropdown_values, reqVars>>

\* fleet_avg = float(fleet_df[TARGET].mean()) if fleet_df is not None else None
FleetAvg ==
    /\ pc = "fleetAvg"
    /\ IF fleet_df.kind = "None"
         THEN /\ fleet_avg' = AvgNone
              /\ pc' = "dropdown"
              /\ UNCHANGED startError
         ELSE IF TARGET \notin fleet_df.columns
         THEN /\ pc' = "crashed"                \* fleet_df[TARGET] raises
              /\ startError' = "KeyError"
              /\ UNCHANGED fleet_avg
         ELSE /\ fleet_avg' = mean(fleet_df.rows, TARGET)
              /\ pc' = "dropdown"
              /\ UNCHANGED startError
    /\ UNCHANGED <<diskVars, trainerVars, modelAtStart, metaSource, model,
                   CATEGORICAL, NUMERIC, TARGET, fleet_df, dropdown_values, reqVars>>

\* dropdown_values = {col: sorted(...) if col in fleet_df.columns else []
\*                    for col in CATEGORICAL}
Dropdown ==
    /\ pc = "dropdown"
    /\ IF fleet_df.kind = "None" /\ CATEGORICAL # <<>>
         THEN /\ pc' = "crashed"                \* None has no attribute 'columns'
              /\ startError' = "AttributeError"
              /\ UNCHANGED dropdown_values
         ELSE /\ dropdown_values' =
                    [col \in Range(CATEGORICAL) |->
                        IF col \in fleet_df.columns
                          THEN dropna_unique(fleet_df.rows, col) ELSE {}]
              /\ pc' = "serving"
              /\ UNCHANGED startError
    /\ UNCHANGED <<diskVars, trainerVars, modelAtStart, metaSource, model,
                   CATEGORICAL, NUMERIC, TARGET, fleet_df, fleet_avg, reqVars>>

----------------------------------------------------------------------------
\* Requests

\* request.form.get(c) of a field that was not submitted
None == "<None>"

\* The form fields a browser may post, and the texts tried for each
FormFields == {"Make", "Model", "Fuel", "Transmission",
               "EngineSize", "Cylinders", "FuelConsumption", "user_suggestion"}

FullForms ==
    {[Make |-> "Tata", Model |-> "Nexon", Fuel |-> fuel, Transmission |-> "Manual",
      EngineSize |-> es, Cylinders |-> "4", FuelConsumption |-> "6.5",
      user_suggestion |-> "  less idling "] :
        fuel \in {"Petrol", "Hydrogen"}, es \in {"1.5", " 2.0 ", "abc"}}

\* A submission leaves out no field, or one of these
Droppable == {"Fuel", "Transmission", "EngineSize", "user_suggestion"}

Forms ==
    {[c \in FormFields \ drop |-> f[c]] :
        f \in FullForms, drop \in {{}} \cup {{c} : c \in Droppable}}

\* request.form.get(key) / request.form.get(key, default)
form_get(form, key, default) == IF key \in DOMAIN form THEN form[key] ELSE default

\* float(text): the number in tenths, or the exception raised.  float()
\* ignores surrounding blanks; float(None) is a TypeError.
float(text) ==
    CASE text = "1.5"   -> [ok |-> TRUE,  v |-> 15, exc |-> ""]
      [] text = " 2.0 " -> [ok |-> TRUE,  v |-> 20, exc |-> ""]
      [] text = "4"     -> [ok |-> TRUE,  v |-> 40, exc |-> ""]
      [] text = "6.5"   -> [ok |-> TRUE,  v |-> 65, exc |-> ""]
      [] text = None    -> [ok |-> FALSE, v |-> 0,  exc |-> "TypeError"]
      [] OTHER          -> [ok |-> FALSE, v |-> 0,  exc |-> "ValueError"]

\* str.strip()
strip(text) ==
    CASE text = "  less idling " -> "less idling"
      [] OTHER -> text

\* model.predict(X)[0]: the fitted pipeline is a fixed function of the columns
\* it was fitted on (CATEGORICAL_COLS, NUMERIC_COLS); a category it has not
\* seen and a missing category are encoded as all zeros.  Thousandths of g/km.
predict(X) ==
    LET r == X.rows[1]
    IN  5000 * r["EngineSize"] + 400 * r["Cylinders"] + 500 * r["FuelConsumption"]
        + (IF r["Make"] = "Tata" THEN 0 ELSE 7000)
        + (IF r["Model"] = "Nexon" THEN 0 ELSE 3000)
        + (IF r["Fuel"] = "Petrol" THEN 0 ELSE 61000)
    + 1503

\* round(float(pred[0]), 2): thousandths to the nearest hundredth
round2(raw) == (raw + 5) \div 10

\* prediction > fleet_avg, for a prediction in hundredths; a comparison
\* with NaN is False
greater_or_equal(prediction, avg) ==
    avg.kind = "num" /\ prediction * avg.den >= 100 * avg.num

greater(prediction, avg) ==
    avg.kind = "num" /\ prediction * avg.den > 100 * avg.num

SuggestionsAbove ==
    <<"Consider regular maintenance to improve fuel efficiency.",
      "Carpool whenever possible to reduce per-person emissions.",
      "Adopt smooth driving habits to reduce fuel use.",
      "Explore hybrid or electric vehicles for the future.">>

SuggestionsBelow ==
    <<"Great job! Your car is performing better than the fleet average.",
      "Keep maintaining your vehicle regularly.",
      "Try using biofuels or renewable energy options when possible.",
      "Also use safety measures to increase rider safety">>

NoRow == [c \in {} |-> 0]

\* A table: its column labels in order, and its rows
NoTable == [columns |-> <<>>, rows |-> <<>>]

\* pd.DataFrame([row], columns=columns): one row, the listed columns in the
\* listed order; a key of row that is not listed is left out, and a listed
\* column that row lacks is empty
DataFrame(row, columns) ==
    [columns |-> columns,
     rows |-> <<[c \in Range(columns) |-> IF c \in DOMAIN row THEN row[c] ELSE None]>>]
NoReq == [method |-> "none", form |-> NoRow]

\* What became of a request.  kind: "none" (prediction is None), "num",
\* "error" (prediction is an "Error: ..." text) or "raised" (an exception left
\* home(); Flask answers with its error page).  X is the table given to
\* model.predict when it was called.
Response(kind, prediction, exc, graph, suggestions, user_suggestion, called, X) ==
    [kind |-> kind, prediction |-> prediction, exc |-> exc, graph |-> graph,
     suggestions |-> suggestions, user_suggestion |-> user_suggestion,
     predictCalled |-> called, X |-> X]

NoResp == Response("none", 0, "", FALSE, <<>>, None, FALSE, NoTable)

\* columns=CATEGORICAL + NUMERIC, the labels given to pd.DataFrame
frame_columns_numeric_first == NUMERIC \o CATEGORICAL

frame_columns == CATEGORICAL \o NUMERIC

\* Columns of CATEGORICAL + NUMERIC
Columns == Range(CATEGORICAL) \cup Range(NUMERIC)

\* The first numeric column, in the order of CATEGORICAL + NUMERIC, whose text
\* float() rejects; 0 if there is none
first_bad(payload) ==
    LET bad == {i \in 1..Len(NUMERIC) : ~float(payload[NUMERIC[i]]).ok}
    IN  IF bad = {} THEN 0 ELSE CHOOSE i \in bad : \A j \in bad : i <= j

\* The body of home() for a POST
post(form) ==
    LET payload == [c \in Columns |-> form_get(form, c, None)]
        user_suggestion == strip(form_get(form, "user_suggestion", ""))
        bad == first_bad(payload)
        row == [c \in Columns |->
                    IF c \in Range(NUMERIC) THEN float(payload[c]).v ELSE payload[c]]
        X == DataFrame(row, frame_columns)
        prediction == round2(predict(X))
    IN  IF bad # 0
          THEN \* float() raises in the dict comprehension, outside the try
               Response("raised", 0, float(payload[NUMERIC[bad]]).exc, FALSE, <<>>,
                        user_suggestion, FALSE, NoTable)
        ELSE IF fleet_avg.kind = "None"
          THEN \* the chart and the comparison with None raise inside the try
               Response("error", 0, "TypeError", FALSE, <<>>, user_suggestion, TRUE, X)
        ELSE Response("num", prediction, "", TRUE,
                      IF greater(prediction, fleet_avg)
                        THEN SuggestionsAbove ELSE SuggestionsBelow,
                      user_suggestion, TRUE, X)

\* home() for a GET: the empty page
get == Response("none", 0, "", FALSE, <<>>, None, FALSE, NoTable)

\* fleet_avg after home() has handled a request: home() has no global
\* statement and assigns only its locals, so the module-level value stays.
fleet_avg_dropped_on_failure(avg, r) ==
    IF r.kind \in {"raised", "error"} THEN AvgNone ELSE avg

fleet_avg_after_home(avg, r) == avg

HomePost ==
    /\ pc = "serving"
    /\ \E form \in Forms :
         /\ req' = [method |-> "POST", form |-> form]
         /\ resp' = post(form)
    /\ prevKind' = resp.kind
    /\ fleet_avg' = fleet_avg_after_home(fleet_avg, resp')
    /\ UNCHANGED <<diskVars, trainerVars, pc, startVars, model, CATEGORICAL, NUMERIC,
                   TARGET, fleet_df, dropdown_values>>

HomeGet ==
    /\ pc = "serving"
    /\ req' = [method |-> "GET", form |-> NoRow]
    /\ resp' = get
    /\ prevKind' = resp.kind
    /\ fleet_avg' = fleet_avg_after_home(fleet_avg, resp')
    /\ UNCHANGED <<diskVars, trainerVars, pc, startVars, model, CATEGORICAL, NUMERIC,
                   TARGET, fleet_df, dropdown_values>>

----------------------------------------------------------------------------
Init ==
    /\ modelFile = NoFile
    /\ metaFile = NoFile
    /\ run = 0
    /\ tpc = "idle"
    /\ df = NoDf
    /\ trainError = NoError
    /\ metrics = NoMetrics
    /\ visited = <<>>
    /\ lastExit = "none"
    /\ pc = "off"
    /\ modelAtStart = NoFile
    /\ startError = ""
    /\ metaSource = "unset"
    /\ model = 0
    /\ CATEGORICAL = <<>>
    /\ NUMERIC = <<>>
    /\ TARGET = ""
    /\ fleet_df = UnsetDf
    /\ fleet_avg = AvgUnset
    /\ dropdown_values = NoDropdown
    /\ req = NoReq
    /\ resp = NoResp
    /\ prevKind = "none"

Next ==
    \/ TrainerStart \/ Load \/ Validate \/ Split \/ Fit \/ Evaluate
    \/ PersistModel \/ PersistMeta \/ TrainerExit
    \/ ServerStart \/ LoadMeta \/ LoadData \/ FleetAvg \/ Dropdown
    \/ HomePost \/ HomeGet

Spec == Init /\ [][Next]_vars

----------------------------------------------------------------------------
\* Properties

IsPost == pc = "serving" /\ req.method = "POST"

\* Some declared numeric column of the submission is text float() rejects
Unparseable(form) ==
    \E c \in Range(NUMERIC) : c \in DOMAIN form /\ ~float(form[c]).ok

\* The submission lacks a declared column
LacksColumn(form) == \E c \in Columns : c \notin DOMAIN form

\* Every declared column is present and every numeric one parses
Valid(form) ==
    /\ \A c \in Columns : c \in DOMAIN form
    /\ \A c \in Range(NUMERIC) : float(form[c]).ok

\* C1: a POST in which a declared numeric column does not parse as a float gets
\* an error result (prediction holds an error message) and no exception
\* leaves home().
C1_ParseFailureIsErrorResult ==
    (IsPost /\ Unparseable(req.form)) => resp.kind = "error"

\* C2: a POST that lacks a declared schema column fails: no row is passed to
\* model.predict, no numeric prediction is returned, an error result is.
C2_MissingColumnFails ==
    (IsPost /\ LacksColumn(req.form)) =>
        (~resp.predictCalled /\ resp.kind # "num" /\ resp.kind = "error")

\* C3: home() leaves model, CATEGORICAL, NUMERIC, TARGET, fleet_avg, fleet_df
\* and dropdown_values as they were; a request that repeats the input of the
\* one before it gets the same result; and a valid submission right after a
\* failed request gets a numeric prediction.
C3_RequestsIndependent ==
    [][(pc = "serving" /\ pc' = "serving") =>
          /\ globals' = globals
          /\ (req' = req => resp' = resp)
          /\ ((resp.kind \in {"raised", "error"} /\ req'.method = "POST"
                 /\ Valid(req'.form)) => resp'.kind = "num")]_vars

C3_Witness ==
    /\ IsPost /\ Valid(req.form)
    /\ prevKind \in {"raised", "error"}
    /\ resp.kind = "num"

\* C4: with no readable reference dataset, startup completes with fleet_avg
\* None and every valid submission gets a numeric prediction.
C4_StartsWithoutDataset ==
    (fleet_df.kind = "None" /\ pc \in {"serving", "crashed"}) =>
        /\ pc = "serving"
        /\ fleet_avg = AvgNone
        /\ (req.method = "POST" /\ Valid(req.form)) => resp.kind = "num"

\* C5: once the server is up, from the metadata file or from the hardcoded
\* default, the columns it requires are the columns the trainer validates.
C5_SchemaConsistent ==
    pc = "serving" =>
        /\ Range(CATEGORICAL) = Range(CATEGORICAL_COLS)
        /\ Range(NUMERIC) = Range(NUMERIC_COLS)
        /\ TARGET = TRAIN_TARGET

\* C6: a run whose dataset lacks a required column aborts in Validate (Split
\* and Fit are not entered) with an error naming exactly the missing required
\* columns, and that run writes neither file.
C6_ValidateAborts ==
    (df.loaded /\ ~(Range(REQUIRED_COLUMNS) \subseteq df.columns) /\ tpc # "Validate") =>
        /\ tpc = "aborted"
        /\ visited = <<"Load", "Validate">>
        /\ trainError.type = "ValueError"
        /\ Range(trainError.cols) = Range(REQUIRED_COLUMNS) \ df.columns
        /\ Len(trainError.cols) = Cardinality(Range(REQUIRED_COLUMNS) \ df.columns)
        /\ modelFile.run # run
        /\ metaFile.run # run

C6_Witness ==
    /\ tpc = "aborted"
    /\ trainError.cols = <<"Fuel">>
    /\ modelFile.state = "ok"
    /\ metaFile.state = "ok"

\* Sum and number of the target values that are present, from the rows
PresentRows(d, col) == {i \in 1..Len(d.rows) : ~d.rows[i][col].isna}

RECURSIVE SumOver(_, _, _)
SumOver(d, col, idx) ==
    IF idx = {} THEN 0
    ELSE LET i == CHOOSE j \in idx : TRUE
         IN  d.rows[i][col].v + SumOver(d, col, idx \ {i})

FleetAvgSet == fleet_avg.kind # "unset"

\* C7 as stated: fleet_avg is the mean of the target over the rows that have
\* one, and None when no dataset is loaded or no row has a target value.
C7_NoneWhenNoTarget ==
    FleetAvgSet =>
        IF fleet_df.kind = "None" \/ PresentRows(fleet_df, TARGET) = {}
          THEN fleet_avg = AvgNone
          ELSE /\ fleet_avg.kind = "num"
               /\ fleet_avg.num * Cardinality(PresentRows(fleet_df, TARGET))
                    = fleet_avg.den * SumOver(fleet_df, TARGET, PresentRows(fleet_df, TARGET))

\* C7 (amended): fleet_avg is the mean of the target over the rows that have
\* one; it is None when no dataset is loaded and NaN when the loaded dataset
\* has no row with a target value.
C7_FleetAvg ==
    FleetAvgSet =>
        IF fleet_df.kind = "None" THEN fleet_avg = AvgNone
        ELSE IF PresentRows(fleet_df, TARGET) = {} THEN fleet_avg = AvgNaN
        ELSE /\ fleet_avg.kind = "num"
             /\ fleet_avg.den > 0
             /\ fleet_avg.num * Cardinality(PresentRows(fleet_df, TARGET))
                  = fleet_avg.den * SumOver(fleet_df, TARGET, PresentRows(fleet_df, TARGET))

C7_Witness ==
    /\ pc = "serving"
    /\ fleet_avg.kind = "num"
    /\ PresentRows(fleet_df, TARGET) # {}
    /\ Cardinality(PresentRows(fleet_df, TARGET)) < Len(fleet_df.rows)

\* C8: a request with a numeric prediction p gets the 'above' list exactly
\* when p > fleet_avg, and the 'at or below' list otherwise (p = fleet_avg
\* included); never an empty or other list.
C8_Suggestions ==
    (pc = "serving" /\ resp.kind = "num") =>
        IF fleet_avg.kind = "num" /\ resp.prediction * fleet_avg.den > 100 * fleet_avg.num
          THEN resp.suggestions = SuggestionsAbove
          ELSE resp.suggestions = SuggestionsBelow

C8_Witness ==
    /\ pc = "serving" /\ resp.kind = "num"
    /\ fleet_avg.kind = "num"
    /\ resp.prediction * fleet_avg.den = 100 * fleet_avg.num
    /\ resp.suggestions = SuggestionsBelow

C10_NoModelNoServer ==
    (pc # "off" /\ modelAtStart.state = "absent") =>
        /\ pc = "crashed"
        /\ startError = "FileNotFoundError"
        /\ metaSource = "unset"
        /\ fleet_df = UnsetDf
        /\ req = NoReq

C10_Witness ==
    /\ pc = "crashed"
    /\ modelAtStart.state = "absent"
    /\ run >= 1

RunOver == tpc \in {"done", "aborted"} \/ (tpc = "idle" /\ run > 0)

\* ... and it went through Persist to its end
RunCompleted == tpc = "done" \/ (tpc = "idle" /\ lastExit = "done")

\* C12 as stated: after any trainer run, also one that failed inside Persist,
\* the model file and the metadata file on disk come from the same run, and a
\* server started then has the model and the schema of one run, never the
\* hardcoded default schema.
C12_FilesFromSameRun ==
    /\ (RunOver /\ modelFile.state # "absent") =>
          (metaFile.state = modelFile.state /\ metaFile.run = modelFile.run)
    /\ pc = "serving" =>
          (metaSource = "file" /\ metaFile.run = model)

\* C12 (amended): after a trainer run that completed Persist both files are
\* whole and written by that run, and a server started then serves that
\* run's model with that run's schema, read from the file.
C12_CompletedRunPairs ==
    /\ RunCompleted =>
          /\ modelFile.state = "ok" /\ modelFile.run = run
          /\ metaFile.state = "ok" /\ metaFile.run = run
          /\ metaFile.content.categorical = CATEGORICAL_COLS
          /\ metaFile.content.numeric = NUMERIC_COLS
          /\ metaFile.content.target = TRAIN_TARGET
    /\ (RunCompleted /\ pc = "serving") =>
          /\ model = run
          /\ metaSource = "file"
          /\ CATEGORICAL = metaFile.content.categorical
          /\ NUMERIC = metaFile.content.numeric
          /\ TARGET = metaFile.content.target

C12_Witness ==
    /\ pc = "serving"
    /\ lastExit = "done"
    /\ run = 2
    /\ model = 2 /\ metaFile.run = 2

====
